---- MODULE Spec2Model ----
(***************************************************************************)
(* Point-cloud annotator: the annotation persistence service               *)
(* (services/storage.ts), the useAnnotations hook and the DynamoDB-backed  *)
(* Lambda handler, modelled as one state machine.                          *)
(*                                                                         *)
(* A JavaScript string is modelled as a sequence of code points (a         *)
(* well-formed surrogate pair is one element, a lone surrogate is an       *)
(* element in D800..DFFF); a Uint8Array is a sequence of bytes.            *)
(***************************************************************************)
EXTENDS Integers, Sequences, FiniteSets, TLC

VARIABLES
    textIn,             \* SpecText: the argument of validateText
    textOut,            \* SpecText: the value validateText returned
    textPhase,          \* SpecText: "input" | "validated" | "revalidated"
    useApi,             \* storage.ts USE_API, read once at start-up
    blob,               \* localStorage[STORAGE.KEY]
    storageMode,        \* localStorage: "ok" | "full" | "denied"
    table,              \* the DynamoDB table: a set of items
    hookPhase,          \* useAnnotations: "init" | "mounted"
    annotations,        \* useAnnotations state: the in-memory list
    selectedAnnotation, \* useAnnotations state: an id or NoId (null)
    isLoading,          \* useAnnotations state
    error,              \* useAnnotations state: a message or NoError (null)
    pending,            \* the hook's calls that wait for the backend
    now,                \* Date.now()
    usedIds,            \* the ids uuidv4() has returned
    last,               \* the hook call that completed last (history)
    numPoints,          \* generateLionPointCloud: its argument
    randomState,        \* the state of the generator behind Math.random()
    positions,          \* generateLionPointCloud: the positions array
    colors,             \* generateLionPointCloud: the colors array
    currentPointIndex,  \* generateLionPointCloud: the next point to write
    shapeIndex,         \* generateLionPointCloud: the shape of the outer loop
    loopI,              \* generateLionPointCloud: i of the inner loop
    samplerPhase,       \* "unused" | "call" | "shapes" | "padding" | "returned"
    writes,             \* how often each point was written (history)
    noiseDraws,         \* the calls of Math.random() made for colours (history)
    lastPoint,          \* the point written last (history)
    localResult,        \* what the last call of storage.ts did, Local backend
    remoteResult,       \* what the same call did on the Remote backend
    formText,           \* AnnotationForm: text
    pendingPosition,    \* App: pendingPosition
    isSaving,           \* App: isSaving
    lastSave,           \* the call of onSave made last (history)
    nfIndex,            \* Netlify Blobs: the blob "annotation-index"
    nfItems,            \* Netlify Blobs: the ids that have a blob
    nfRequests,         \* Netlify function: the requests in flight
    nfPosted,           \* the ids whose POST was answered 201 (history)
    nfDeleteIssued,     \* the ids a DELETE was sent for (history)
    nfLast              \* the request answered last (history)

textVars == <<textIn, textOut, textPhase>>

appVars ==
    <<useApi, blob, storageMode, table, hookPhase, annotations,
      selectedAnnotation, isLoading, error, pending, now, usedIds, last>>

samplerVars ==
    <<numPoints, randomState, positions, colors, currentPointIndex,
      shapeIndex, loopI, samplerPhase, writes, noiseDraws, lastPoint>>

backendVars == <<localResult, remoteResult>>

formVars == <<formText, pendingPosition, isSaving, lastSave>>

netlifyVars ==
    <<nfIndex, nfItems, nfRequests, nfPosted, nfDeleteIssued, nfLast>>

otherVars == <<samplerVars, backendVars, formVars, netlifyVars>>

vars == <<textVars, appVars, otherVars>>

(***************************************************************************)
(* Bounds of the model                                                     *)
(***************************************************************************)
\* longest tail of arbitrary characters after the run of 'a' in a test text
MaxTail == 2
\* the run of 'a' is between MAX_TEXT_BYTES - PadSlack and MAX_TEXT_BYTES + 1
PadSlack == 6
\* the number of ids uuidv4() can return (annotations created in one run)
MaxIds == 2

(***************************************************************************)
(* constants/index.ts                                                      *)
(***************************************************************************)
MAX_TEXT_BYTES == 256
VERSION == 1
DEFAULT_SCENE_ID == "lion"
OTHER_SCENE_ID == "other"

(***************************************************************************)
(* Characters used to build texts: one of every UTF-8 width, the BOM, the  *)
(* replacement character and a lone (unpaired) high surrogate.             *)
(***************************************************************************)
CharA == 97
CharEAcute == 233
CharEuro == 8364
CharEmoji == 128512
CharBOM == 65279
CharReplacement == 65533
CharLoneSurrogate == 55357

Alphabet ==
    {CharA, CharEAcute, CharEuro, CharEmoji, CharBOM, CharReplacement,
     CharLoneSurrogate}

Pad(n) == [i \in 1..n |-> CharA]

IsSurrogate(cp) == cp >= 55296 /\ cp <= 57343

\* TextEncoder: the UTF-8 bytes of one code point; a lone surrogate is
\* encoded as U+FFFD.
utf8Bytes(cp) ==
    LET c == IF IsSurrogate(cp) THEN CharReplacement ELSE cp IN
    IF c < 128 THEN <<c>>
    ELSE IF c < 2048 THEN <<192 + (c \div 64), 128 + (c % 64)>>
    ELSE IF c < 65536
         THEN <<224 + (c \div 4096), 128 + ((c \div 64) % 64), 128 + (c % 64)>>
    ELSE <<240 + (c \div 262144), 128 + ((c \div 4096) % 64),
           128 + ((c \div 64) % 64), 128 + (c % 64)>>

\* the last index of the run of ASCII elements of s that starts at i
\* (a run is copied in one step, which keeps the recursion shallow)
AsciiRunEnd(s, i) ==
    LET stops == {k \in i..Len(s) : s[k] > 127} IN
    IF stops = {} THEN Len(s)
    ELSE (CHOOSE k \in stops : \A m \in stops : k <= m) - 1

RECURSIVE encodeFrom(_, _)
encodeFrom(text, i) ==
    IF i > Len(text) THEN <<>>
    ELSE IF text[i] <= 127
    THEN LET j == AsciiRunEnd(text, i) IN
         SubSeq(text, i, j) \o encodeFrom(text, j + 1)
    ELSE utf8Bytes(text[i]) \o encodeFrom(text, i + 1)

\* new TextEncoder().encode(text)
encode(text) == encodeFrom(text, 1)

\* Uint8Array.prototype.slice(0, n)
slice(bytes, n) == SubSeq(bytes, 1, IF n < Len(bytes) THEN n ELSE Len(bytes))

(***************************************************************************)
(* new TextDecoder().decode(bytes): the WHATWG UTF-8 decoder with the      *)
(* default options fatal = false (a malformed sequence yields U+FFFD, no   *)
(* exception) and ignoreBOM = false (a leading EF BB BF is dropped).       *)
(* need = bytes still needed, cp = code point under construction,          *)
(* lower..upper = the range the next continuation byte must lie in.        *)
(***************************************************************************)
RECURSIVE decodeFrom(_, _, _, _, _, _, _)
decodeFrom(bytes, i, cp, need, lower, upper, out) ==
    IF i > Len(bytes)
    THEN IF need # 0 THEN Append(out, CharReplacement) ELSE out
    ELSE LET b == bytes[i] IN
         IF need = 0
         THEN IF b <= 127
              THEN LET j == AsciiRunEnd(bytes, i) IN
                   decodeFrom(bytes, j + 1, 0, 0, 128, 191,
                              out \o SubSeq(bytes, i, j))
              ELSE IF b >= 194 /\ b <= 223
              THEN decodeFrom(bytes, i + 1, b % 32, 1, 128, 191, out)
              ELSE IF b >= 224 /\ b <= 239
              THEN decodeFrom(bytes, i + 1, b % 16, 2,
                              IF b = 224 THEN 160 ELSE 128,
                              IF b = 237 THEN 159 ELSE 191, out)
              ELSE IF b >= 240 /\ b <= 244
              THEN decodeFrom(bytes, i + 1, b % 8, 3,
                              IF b = 240 THEN 144 ELSE 128,
                              IF b = 244 THEN 143 ELSE 191, out)
              ELSE decodeFrom(bytes, i + 1, 0, 0, 128, 191,
                              Append(out, CharReplacement))
         ELSE IF b < lower \/ b > upper
              \* the byte is re-read with the decoder reset
              THEN decodeFrom(bytes, i, 0, 0, 128, 191,
                              Append(out, CharReplacement))
              ELSE IF need = 1
              THEN decodeFrom(bytes, i + 1, 0, 0, 128, 191,
                              Append(out, cp * 64 + (b % 64)))
              ELSE decodeFrom(bytes, i + 1, cp * 64 + (b % 64), need - 1,
                              128, 191, out)

HasBOM(bytes) ==
    Len(bytes) >= 3 /\ bytes[1] = 239 /\ bytes[2] = 187 /\ bytes[3] = 191

\* the result of decode: threw is always FALSE because fatal is not set
decode(bytes) ==
    [threw |-> FALSE,
     value |-> decodeFrom(bytes, IF HasBOM(bytes) THEN 4 ELSE 1,
                          0, 0, 128, 191, <<>>)]

\* the while loop of validateText: decode, and on an exception drop the
\* last byte and retry; '' when the slice is empty
RECURSIVE truncateLoop(_)
truncateLoop(truncated) ==
    IF Len(truncated) > 0
    THEN IF ~decode(truncated).threw
         THEN decode(truncated).value
         ELSE truncateLoop(slice(truncated, Len(truncated) - 1))
    ELSE <<>>

\* validateText without its early return for texts within the limit
validateText_NoEarlyReturn(text) ==
    truncateLoop(slice(encode(text), MAX_TEXT_BYTES))

validateText(text) ==
    LET encoded == encode(text) IN
    IF Len(encoded) <= MAX_TEXT_BYTES
    THEN text
    ELSE truncateLoop(slice(encoded, MAX_TEXT_BYTES))

IsPrefix(a, b) == Len(a) <= Len(b) /\ SubSeq(b, 1, Len(a)) = a

byteLength(text) == Len(encode(text))

(***************************************************************************)
(* Data model (types/annotation.ts).  An absent or falsy field is the      *)
(* value NoId, NoPosition, "" or <<>> of its type.                         *)
(***************************************************************************)
NoId == 0
NoPosition == 0
NoError == "null"

Ids == 1..MaxIds
Positions == {1, 2}

\* the texts a user types into the form: a short one, one over the limit
\* that is cut between two characters, one over the limit that is cut inside
\* a character
UserTexts ==
    {<<CharA>>, Pad(MAX_TEXT_BYTES + 1),
     Pad(MAX_TEXT_BYTES - 1) \o <<CharEuro>>}

NoAnnotation ==
    [id |-> NoId, sceneId |-> "", position |-> NoPosition, text |-> <<>>,
     createdAt |-> 0]

idsOf(list) == {list[k].id : k \in 1..Len(list)}

elementsOf(list) == {list[k] : k \in 1..Len(list)}

\* annotations.filter(a => a.id !== id)
filterOut(list, id) == SelectSeq(list, LAMBDA a : a.id # id)

(***************************************************************************)
(* localStorage implementation (storage.ts, V1).  The value under          *)
(* STORAGE.KEY is absent ("missing"), text that is not JSON ("invalid"),   *)
(* a JSON object without an annotations field ("nofield") or a store       *)
(* document ("store").  storageMode "denied" makes every access raise,     *)
(* "full" makes setItem raise (quota exceeded).                            *)
(***************************************************************************)
NoBlob == [kind |-> "missing", annotations |-> <<>>, version |-> 0]

\* JSON.stringify({ annotations, version: STORAGE.VERSION })
storeDocument(list) ==
    [kind |-> "store", annotations |-> list, version |-> VERSION]

\* loadFromLocalStorage without its try/catch: a raised error escapes
loadFromLocalStorage_NoCatch(b, mode) ==
    IF mode = "denied" \/ b.kind = "invalid"
    THEN [threw |-> TRUE, value |-> <<>>, blob |-> b]
    ELSE [threw |-> FALSE, value |-> b.annotations, blob |-> b]

loadFromLocalStorage(b, mode) ==
    IF mode = "denied"
    THEN [threw |-> FALSE, value |-> <<>>, blob |-> b]    \* getItem raised
    ELSE IF b.kind = "missing"
    THEN [threw |-> FALSE, value |-> <<>>, blob |-> b]    \* !data
    ELSE IF b.kind = "invalid"
    THEN [threw |-> FALSE, value |-> <<>>, blob |-> b]    \* JSON.parse raised
    ELSE IF b.kind = "nofield"
    THEN [threw |-> FALSE, value |-> <<>>, blob |-> b]    \* annotations || []
    ELSE [threw |-> FALSE, value |-> b.annotations, blob |-> b]

\* the value under STORAGE.KEY after saveToLocalStorage(list)
saveToLocalStorage(b, mode, list) ==
    IF mode = "ok" THEN storeDocument(list) ELSE b        \* setItem raised

\* the annotations held by the stored document
storedInBlob(b) == IF b.kind = "store" THEN b.annotations ELSE <<>>

(***************************************************************************)
(* Lambda handler over the DynamoDB table (keyed by sceneId, id).          *)
(* An event is [method, body, sceneId, id]; body.kind is "none", "badjson" *)
(* (JSON.parse raises) or "doc"; dbOk = FALSE makes docClient.send raise.  *)
(***************************************************************************)
HandlerTextLimit == 256

NoBody == [kind |-> "none", doc |-> NoAnnotation]

\* a body that is not JSON: JSON.parse raises
BadJson == [kind |-> "badjson", doc |-> NoAnnotation]

NoEvent == [method |-> "", body |-> NoBody, sceneId |-> "", id |-> NoId]

jsonBody(annotation) == [kind |-> "doc", doc |-> annotation]

RECURSIVE sortById(_)
sortById(items) ==
    IF items = {} THEN <<>>
    ELSE LET first == CHOOSE a \in items : \A b \in items : a.id <= b.id IN
         <<first>> \o sortById(items \ {first})

\* a ScanCommand: every item of the table, whatever its scene
queryItems_Scan(tbl, sceneId) == sortById(tbl)

\* QueryCommand with KeyConditionExpression sceneId = :sceneId
queryItems(tbl, sceneId) == sortById({a \in tbl : a.sceneId = sceneId})

\* a put that adds the item and keeps the one with the same key
putItem_NoReplace(tbl, item) == tbl \cup {item}

\* PutCommand: the item replaces the item with the same key
putItem(tbl, item) ==
    {a \in tbl : ~(a.sceneId = item.sceneId /\ a.id = item.id)} \cup {item}

\* a delete keyed by the partition key alone
deleteItem_WholeScene(tbl, sceneId, id) ==
    {a \in tbl : a.sceneId # sceneId}

\* DeleteCommand with Key { sceneId, id }
deleteItem(tbl, sceneId, id) ==
    {a \in tbl : ~(a.sceneId = sceneId /\ a.id = id)}

response(status, list, tbl) ==
    [statusCode |-> status, annotations |-> list, id |-> NoId,
     table |-> tbl, threw |-> FALSE]

\* an error raised inside the handler: JSON.parse or docClient.send
raised(tbl) ==
    [statusCode |-> 0, annotations |-> <<>>, id |-> NoId, table |-> tbl,
     threw |-> TRUE]

NoResponse == [statusCode |-> 0, annotations |-> <<>>, id |-> NoId,
               threw |-> FALSE]

\* the text check of the POST branch, on the length in UTF-16 units
textTooLong_InChars(text) == text # <<>> /\ Len(text) > HandlerTextLimit

\* annotation.text && new TextEncoder().encode(annotation.text).length > 256
textTooLong(text) == text # <<>> /\ byteLength(text) > HandlerTextLimit

\* the POST branch of the try block
handlerPost(event, tbl, dbOk) ==
    IF event.body.kind = "none" THEN response(400, <<>>, tbl)
    ELSE IF event.body.kind = "badjson" THEN raised(tbl)
    ELSE LET doc == event.body.doc
             annotation ==
                 [doc EXCEPT !.sceneId =
                     IF doc.sceneId # "" THEN doc.sceneId
                     ELSE DEFAULT_SCENE_ID]
         IN
         IF annotation.id = NoId \/ annotation.position = NoPosition
         THEN response(400, <<>>, tbl)
         ELSE IF textTooLong(annotation.text)
         THEN response(400, <<>>, tbl)
         ELSE IF ~dbOk THEN raised(tbl)
         ELSE response(201, <<>>, putItem(tbl, annotation))

\* a handler that ignores the sceneId parameter
sceneIdOf_AlwaysDefault(event) == DEFAULT_SCENE_ID

\* event.queryStringParameters?.sceneId || DEFAULT_SCENE_ID
sceneIdOf(event) ==
    IF event.sceneId # "" THEN event.sceneId ELSE DEFAULT_SCENE_ID

\* the try block of the handler
handlerTry(event, tbl, dbOk) ==
    IF event.method = "OPTIONS" THEN response(204, <<>>, tbl)
    ELSE IF event.method = "GET"
    THEN LET sceneId == sceneIdOf(event) IN
         IF ~dbOk THEN raised(tbl)
         ELSE response(200, queryItems(tbl, sceneId), tbl)
    ELSE IF event.method = "POST" THEN handlerPost(event, tbl, dbOk)
    ELSE IF event.method = "DELETE"
    THEN LET sceneId == sceneIdOf(event) IN
         IF event.id = NoId THEN response(400, <<>>, tbl)
         ELSE IF ~dbOk THEN raised(tbl)
         ELSE [response(200, <<>>, deleteItem(tbl, sceneId, event.id))
                  EXCEPT !.id = event.id]
    ELSE response(405, <<>>, tbl)

\* the handler without its catch block
handler_NoCatch(event, tbl, dbOk) == handlerTry(event, tbl, dbOk)

\* try { ... } catch (error) { return { statusCode: 500, ... } }
handler(event, tbl, dbOk) ==
    LET result == handlerTry(event, tbl, dbOk) IN
    IF result.threw THEN response(500, <<>>, result.table) ELSE result

(***************************************************************************)
(* API implementation (storage.ts, V2/V3).  net is what the network does   *)
(* to one fetch: "ok", "lostRequest" (fetch rejects, the handler never     *)
(* ran) or "lostResponse" (the handler ran, fetch rejects).                *)
(***************************************************************************)
NetOutcomes == {"ok", "lostRequest", "lostResponse"}

\* response.ok
isOk(status) == status >= 200 /\ status <= 299

errorMessage(status) ==
    IF status = 400 THEN "HTTP 400"
    ELSE IF status = 500 THEN "HTTP 500"
    ELSE "HTTP error"

NetworkError == "Failed to fetch"

\* one fetch of a request that writes: what the caller sees and the table
\* afterwards
fetchWrite(event, tbl, net, dbOk) ==
    LET resp == handler(event, tbl, dbOk) IN
    IF net = "lostRequest"
    THEN [threw |-> TRUE, message |-> NetworkError, status |-> 0,
          table |-> tbl]
    ELSE IF net = "lostResponse"
    THEN [threw |-> TRUE, message |-> NetworkError, status |-> 0,
          table |-> resp.table]
    ELSE IF ~isOk(resp.statusCode)
    THEN [threw |-> TRUE, message |-> errorMessage(resp.statusCode),
          status |-> resp.statusCode, table |-> resp.table]
    ELSE [threw |-> FALSE, message |-> NoError, status |-> resp.statusCode,
          table |-> resp.table]

addToAPI(annotation, tbl, net, dbOk) ==
    fetchWrite([method |-> "POST", body |-> jsonBody(annotation),
                sceneId |-> "", id |-> NoId], tbl, net, dbOk)

deleteFromAPI(id, tbl, net, dbOk) ==
    fetchWrite([method |-> "DELETE", body |-> NoBody,
                sceneId |-> DEFAULT_SCENE_ID, id |-> id], tbl, net, dbOk)

\* loadFromAPI without its check of response.ok: the body of an error
\* answer has no annotations field
loadFromAPI_NoOkCheck(tbl, net, dbOk) ==
    LET resp == handler([method |-> "GET", body |-> NoBody,
                         sceneId |-> DEFAULT_SCENE_ID, id |-> NoId],
                        tbl, dbOk) IN
    IF net # "ok"
    THEN [threw |-> FALSE, message |-> NoError, failed |-> TRUE,
          value |-> <<>>]
    ELSE [threw |-> FALSE, message |-> NoError, failed |-> FALSE,
          value |-> resp.annotations]

\* loadFromAPI: every failure is caught inside and becomes []
loadFromAPI(tbl, net, dbOk) ==
    LET resp == handler([method |-> "GET", body |-> NoBody,
                         sceneId |-> DEFAULT_SCENE_ID, id |-> NoId],
                        tbl, dbOk) IN
    IF net # "ok"
    THEN [threw |-> FALSE, message |-> NoError, failed |-> TRUE,
          value |-> <<>>]
    ELSE IF ~isOk(resp.statusCode)
    THEN [threw |-> FALSE, message |-> NoError, failed |-> TRUE,
          value |-> <<>>]
    ELSE [threw |-> FALSE, message |-> NoError, failed |-> FALSE,
          value |-> resp.annotations]

\* the annotations of the default scene held by the table
storedInTable(tbl) == sortById({a \in tbl : a.sceneId = DEFAULT_SCENE_ID})

(***************************************************************************)
(* Public API of storage.ts on the localStorage backend: the value         *)
(* returned and the value under STORAGE.KEY afterwards.                    *)
(***************************************************************************)
\* addAnnotation that saves the list it loaded, before the push
addAnnotationLocal_SavesBeforePush(b, mode, annotation) ==
    LET validated == [annotation EXCEPT !.text = validateText(annotation.text)]
        loaded == loadFromLocalStorage(b, mode)
    IN
    [threw |-> FALSE, value |-> Append(loaded.value, validated),
     blob |-> saveToLocalStorage(loaded.blob, mode, loaded.value)]

addAnnotationLocal(b, mode, annotation) ==
    LET validated == [annotation EXCEPT !.text = validateText(annotation.text)]
        loaded == loadFromLocalStorage(b, mode)
        list == Append(loaded.value, validated)
    IN
    IF loaded.threw THEN [threw |-> TRUE, value |-> <<>>, blob |-> loaded.blob]
    ELSE [threw |-> FALSE, value |-> list,
          blob |-> saveToLocalStorage(loaded.blob, mode, list)]

\* deleteAnnotation that returns the filtered list without saving it
deleteAnnotationLocal_NoSave(b, mode, id) ==
    LET loaded == loadFromLocalStorage(b, mode) IN
    [threw |-> FALSE, value |-> filterOut(loaded.value, id),
     blob |-> loaded.blob]

deleteAnnotationLocal(b, mode, id) ==
    LET loaded == loadFromLocalStorage(b, mode)
        list == filterOut(loaded.value, id)
    IN
    IF loaded.threw THEN [threw |-> TRUE, value |-> <<>>, blob |-> loaded.blob]
    ELSE [threw |-> FALSE, value |-> list,
          blob |-> saveToLocalStorage(loaded.blob, mode, list)]

\* Partial<Annotation>: fields names the properties the object carries
NoUpdates ==
    [fields |-> {}, id |-> NoId, position |-> NoPosition, text |-> <<>>,
     createdAt |-> 0]

textUpdate(t) == [NoUpdates EXCEPT !.fields = {"text"}, !.text = t]

idUpdate(id) == [NoUpdates EXCEPT !.fields = {"id"}, !.id = id]

\* { ...a, ...updates,
\*   text: updates.text ? validateText(updates.text) : a.text }
\* (the empty string is falsy)
mergeUpdates(a, updates) ==
    [id |-> IF "id" \in updates.fields THEN updates.id ELSE a.id,
     sceneId |-> a.sceneId,
     position |-> IF "position" \in updates.fields THEN updates.position
                  ELSE a.position,
     text |-> IF "text" \in updates.fields /\ updates.text # <<>>
              THEN validateText(updates.text) ELSE a.text,
     createdAt |-> IF "createdAt" \in updates.fields THEN updates.createdAt
                   ELSE a.createdAt]

updateAnnotationLocal(b, mode, id, updates) ==
    LET loaded == loadFromLocalStorage(b, mode)
        list == [k \in 1..Len(loaded.value) |->
                    IF loaded.value[k].id = id
                    THEN mergeUpdates(loaded.value[k], updates)
                    ELSE loaded.value[k]]
    IN
    IF loaded.threw THEN [threw |-> TRUE, value |-> <<>>, blob |-> loaded.blob]
    ELSE [threw |-> FALSE, value |-> list,
          blob |-> saveToLocalStorage(loaded.blob, mode, list)]

\* updateAnnotation on the API backend: the request it starts with is the
\* GET of loadFromAPI
updateAnnotationRemote == "read"

(***************************************************************************)
(* useAnnotations.  A call that waits for the backend is a record of       *)
(* pending: kind "load" | "create" | "delete" | "update"; phase "write"    *)
(* (the POST or DELETE is under way), "read" (the GET is under way) or     *)
(* "resp" (the GET was answered, its promise has not resolved yet);        *)
(* prev is previousAnnotations, data the list loadFromAPI returns.         *)
(***************************************************************************)
NoLast ==
    [op |-> "none", id |-> NoId, position |-> NoPosition, userText |-> <<>>,
     failed |-> FALSE, threw |-> FALSE, returned |-> <<>>,
     readFailed |-> FALSE, status |-> 0, prev |-> <<>>,
     blobBefore |-> NoBlob, tableBefore |-> {}, modeBefore |-> "ok",
     updates |-> NoUpdates, event |-> NoEvent, dbOk |-> TRUE,
     response |-> NoResponse]

pendingOp(kind, phase, annotation, userText, prev) ==
    [kind |-> kind, phase |-> phase, ann |-> annotation,
     userText |-> userText, prev |-> prev, data |-> <<>>,
     readFailed |-> FALSE, readThrew |-> FALSE, message |-> NoError,
     status |-> 0, tableBefore |-> table]

removeAt(seq, i) == SubSeq(seq, 1, i - 1) \o SubSeq(seq, i + 1, Len(seq))

\* the record of a completed call that went through pending
lastOf(op, failed, returned) ==
    [NoLast EXCEPT !.op = op.kind, !.id = op.ann.id,
                   !.position = op.ann.position, !.userText = op.userText,
                   !.failed = failed, !.threw = failed,
                   !.returned = returned, !.readFailed = op.readFailed,
                   !.status = op.status, !.prev = op.prev,
                   !.tableBefore = op.tableBefore]

\* setAnnotations(prev => prev.filter(a => a.id !== id))
optimisticRemove(list, id) == filterOut(list, id)

\* the catch branch of deleteAnnotation without the rollback
deleteRollback_Missing(current, previousAnnotations) == current

\* setAnnotations(previousAnnotations) in the catch branch
deleteRollback(current, previousAnnotations) == previousAnnotations

\* uuidv4(): an id that was never returned before; ids are opaque, so they
\* are numbered in the order of their creation
freshIds == {Cardinality(usedIds) + 1} \cap Ids

\* newAnnotation of createAnnotation
newAnnotation(id, position, text) ==
    [id |-> id, sceneId |-> DEFAULT_SCENE_ID, position |-> position,
     text |-> validateText(text), createdAt |-> now]

(***************************************************************************)
(* generateLionPointCloud (pointCloudGenerator).  Weights are in tenths,   *)
(* colour components in thousandths.  A coordinate sampled from shape s is *)
(* the abstract value s (the random point itself is not modelled), the     *)
(* coordinate 0 is the value 0.  Math.random() is a generator whose calls  *)
(* for the colour noise are numbered noiseDraws + 1, noiseDraws + 2, ...   *)
(***************************************************************************)
\* shapes[s].weight * 10, in definition order
Weights == <<30, 10, 10, 15, 20, 5, 1, 5, 5, 5, 5, 2, 2>>

\* shapes[s].color, in definition order
ShapeColors ==
    LET bodyColor == <<800, 600, 200>>
        maneColor == <<400, 200, 50>>
        noseColor == <<100, 100, 100>>
    IN <<bodyColor, bodyColor, bodyColor, bodyColor, maneColor, bodyColor,
         noseColor, bodyColor, bodyColor, bodyColor, bodyColor, bodyColor,
         maneColor>>

RECURSIVE sumWeights(_)
sumWeights(n) == IF n = 0 THEN 0 ELSE sumWeights(n - 1) + Weights[n]

\* shapes.reduce((sum, s) => sum + s.weight, 0)
totalWeight == sumWeights(Len(Weights))

\* a count rounded to the nearest integer
shapeCount_Rounded(s, n) ==
    (2 * Weights[s] * n + totalWeight) \div (2 * totalWeight)

\* Math.floor((shape.weight / totalWeight) * numPoints)
shapeCount(s, n) == (Weights[s] * n) \div totalWeight

\* (Math.random() - 0.5) * 0.1 for the values the generator returns: the
\* least, the middle and the greatest
NoiseValues == <<-50, 0, 49>>

\* the noise the call of Math.random() numbered draw yields
noiseOf(state, draw) == NoiseValues[((state + draw) % Len(NoiseValues)) + 1]

\* Math.min(1, Math.max(0, c))
clamp(c) == IF c < 0 THEN 0 ELSE IF c > 1000 THEN 1000 ELSE c

\* a generator that stops after the shapes
needsPadding_Never(index, n) == FALSE

\* while (currentPointIndex < numPoints)
needsPadding(index, n) == index < n

NoPoint == [shape |-> 0, draws |-> <<0, 0, 0>>, noise |-> <<0, 0, 0>>]

\* a[3 * index + k] = v[k] for k = 0, 1, 2 (arrays are 1-based sequences)
writeTriple(a, index, v) ==
    [j \in 1..Len(a) |->
        IF j > 3 * index /\ j <= 3 * index + 3 THEN v[j - 3 * index]
        ELSE a[j]]

\* every part of the model but the named ones is in its initial state: the
\* application before it is mounted, the sampler not called, no call of
\* storage.ts compared, the form closed, the blob store empty
IdleExcept(parts) ==
    /\ IF "app" \in parts THEN TRUE
       ELSE /\ textIn = <<>>
            /\ textOut = <<>>
            /\ textPhase = "unused"
            /\ useApi = FALSE
            /\ blob = NoBlob
            /\ storageMode = "ok"
            /\ table = {}
            /\ hookPhase = "init"
            /\ annotations = <<>>
            /\ selectedAnnotation = NoId
            /\ isLoading = TRUE
            /\ error = NoError
            /\ pending = <<>>
            /\ now = 1
            /\ usedIds = {}
            /\ last = NoLast
    /\ IF "sampler" \in parts THEN TRUE
       ELSE /\ numPoints = 0
            /\ randomState = 0
            /\ positions = <<>>
            /\ colors = <<>>
            /\ currentPointIndex = 0
            /\ shapeIndex = 0
            /\ loopI = 0
            /\ samplerPhase = "unused"
            /\ writes = <<>>
            /\ noiseDraws = 0
            /\ lastPoint = NoPoint
    /\ localResult = [op |-> "none", threw |-> FALSE, value |-> <<>>]
    /\ remoteResult = [op |-> "none", threw |-> FALSE, value |-> <<>>]
    /\ IF "form" \in parts THEN TRUE
       ELSE /\ formText = <<>>
            /\ pendingPosition = NoPosition
            /\ isSaving = FALSE
            /\ lastSave = [text |-> <<>>, via |-> "none"]
    /\ nfIndex = <<>>
    /\ nfItems = {}
    /\ nfRequests = <<>>
    /\ nfPosted = {}
    /\ nfDeleteIssued = {}
    /\ nfLast = [method |-> "none", id |-> NoId, status |-> 0, ids |-> <<>>,
                 quiet |-> FALSE, posted |-> {}]

\* an item another client of the API wrote for another scene
OtherSceneItem ==
    [id |-> 1, sceneId |-> OTHER_SCENE_ID, position |-> 1, text |-> <<CharA>>,
     createdAt |-> 0]

\* the objects updateAnnotation is called with: a text that is empty or
\* over the limit, or an id the application has seen
UpdateInputs ==
    {textUpdate(t) : t \in {<<>>, Pad(MAX_TEXT_BYTES + 1)}}
        \cup {idUpdate(i) : i \in usedIds}

Init ==
    /\ textIn = <<>>
    /\ textOut = <<>>
    /\ textPhase = "unused"
    /\ useApi \in BOOLEAN
    /\ blob \in IF useApi THEN {NoBlob}
                ELSE {NoBlob, [NoBlob EXCEPT !.kind = "invalid"],
                      [NoBlob EXCEPT !.kind = "nofield"]}
    /\ storageMode \in IF useApi THEN {"ok"} ELSE {"ok", "full", "denied"}
    /\ table = {}
    /\ hookPhase = "init"
    /\ annotations = <<>>
    /\ selectedAnnotation = NoId
    /\ isLoading = TRUE
    /\ error = NoError
    /\ pending = <<>>
    /\ now = 1
    /\ usedIds = {}
    /\ last = NoLast
    /\ IdleExcept({"app"})

\* the load effect, localStorage backend: the promise resolves at once
MountLocal ==
    /\ ~useApi
    /\ hookPhase = "init"
    /\ LET loaded == loadFromLocalStorage(blob, storageMode) IN
       /\ blob' = loaded.blob
       /\ annotations' = IF loaded.threw THEN annotations ELSE loaded.value
       /\ error' = IF loaded.threw THEN "Failed to load" ELSE error
       /\ last' = [NoLast EXCEPT !.op = "load", !.failed = loaded.threw,
                                 !.threw = loaded.threw,
                                 !.returned = loaded.value,
                                 !.blobBefore = blob,
                                 !.modeBefore = storageMode]
    /\ hookPhase' = "mounted"
    /\ isLoading' = FALSE
    /\ UNCHANGED <<textVars, otherVars, useApi, storageMode, table,
                   selectedAnnotation, pending, now, usedIds>>

\* the load effect, API backend: loadFromAPI sends its GET
MountRemote ==
    /\ useApi
    /\ hookPhase = "init"
    /\ hookPhase' = "mounted"
    /\ pending' = Append(pending,
                         pendingOp("load", "read", NoAnnotation, <<>>,
                                   annotations))
    /\ last' = NoLast
    /\ UNCHANGED <<textVars, otherVars, useApi, blob, storageMode, table,
                   annotations, selectedAnnotation, isLoading, error, now,
                   usedIds>>

\* createAnnotation(position, text), localStorage backend
CreateLocal(position, text) ==
    /\ ~useApi
    /\ hookPhase = "mounted"
    /\ \E id \in freshIds :
        LET annotation == newAnnotation(id, position, text)
            added == addAnnotationLocal(blob, storageMode, annotation)
        IN
        /\ blob' = added.blob
        /\ annotations' = IF added.threw THEN annotations ELSE added.value
        /\ error' = IF added.threw THEN "Failed to create" ELSE error
        /\ usedIds' = usedIds \cup {id}
        /\ last' = [NoLast EXCEPT !.op = "create", !.id = id,
                                  !.position = position, !.userText = text,
                                  !.failed = added.threw,
                                  !.threw = added.threw,
                                  !.returned = added.value,
                                  !.prev = annotations,
                                  !.blobBefore = blob,
                                  !.modeBefore = storageMode]
    /\ now' = now + 1
    /\ UNCHANGED <<textVars, otherVars, useApi, storageMode, table, hookPhase,
                   selectedAnnotation, isLoading, pending>>

\* createAnnotation(position, text), API backend: addToAPI sends its POST
CreateRemote(position, text) ==
    /\ useApi
    /\ hookPhase = "mounted"
    /\ \E id \in freshIds :
        LET annotation == newAnnotation(id, position, text)
            validated ==
                [annotation EXCEPT !.text = validateText(annotation.text)]
        IN
        /\ pending' = Append(pending,
                             pendingOp("create", "write", validated, text,
                                       annotations))
        /\ usedIds' = usedIds \cup {id}
    /\ now' = now + 1
    /\ last' = NoLast
    /\ UNCHANGED <<textVars, otherVars, useApi, blob, storageMode, table,
                   hookPhase, annotations, selectedAnnotation, isLoading,
                   error>>

\* deleteAnnotation(id), localStorage backend
DeleteLocal(id) ==
    /\ ~useApi
    /\ hookPhase = "mounted"
    /\ id \in idsOf(annotations)
    /\ LET deleted == deleteAnnotationLocal(blob, storageMode, id)
           removed == optimisticRemove(annotations, id)
       IN
       /\ blob' = deleted.blob
       /\ annotations' = IF deleted.threw
                         THEN deleteRollback(removed, annotations)
                         ELSE removed
       /\ error' = IF deleted.threw THEN "Failed to delete" ELSE error
       /\ last' = [NoLast EXCEPT !.op = "delete", !.id = id,
                                 !.failed = deleted.threw,
                                 !.threw = deleted.threw,
                                 !.returned = deleted.value,
                                 !.prev = annotations,
                                 !.blobBefore = blob,
                                 !.modeBefore = storageMode]
    /\ selectedAnnotation' =
           IF selectedAnnotation = id THEN NoId ELSE selectedAnnotation
    /\ UNCHANGED <<textVars, otherVars, useApi, storageMode, table, hookPhase,
                   isLoading, pending, now, usedIds>>

\* deleteAnnotation(id), API backend: the optimistic update, then
\* deleteFromAPI sends its DELETE
DeleteRemote(id) ==
    /\ useApi
    /\ hookPhase = "mounted"
    /\ id \in idsOf(annotations)
    /\ annotations' = optimisticRemove(annotations, id)
    /\ selectedAnnotation' =
           IF selectedAnnotation = id THEN NoId ELSE selectedAnnotation
    /\ pending' = Append(pending,
                         pendingOp("delete", "write",
                                   [NoAnnotation EXCEPT !.id = id], <<>>,
                                   annotations))
    /\ last' = [NoLast EXCEPT !.op = "deleteIssued", !.id = id,
                              !.prev = annotations, !.tableBefore = table]
    /\ UNCHANGED <<textVars, otherVars, useApi, blob, storageMode, table,
                   hookPhase, isLoading, error, now, usedIds>>

\* updateAnnotation(id, updates), localStorage backend
UpdateLocal(id, updates) ==
    /\ ~useApi
    /\ hookPhase = "mounted"
    /\ LET updated == updateAnnotationLocal(blob, storageMode, id, updates) IN
       /\ blob' = updated.blob
       /\ annotations' = IF updated.threw THEN annotations ELSE updated.value
       /\ error' = IF updated.threw THEN "Failed to update" ELSE error
       /\ last' = [NoLast EXCEPT !.op = "update", !.id = id,
                                 !.updates = updates,
                                 !.failed = updated.threw,
                                 !.threw = updated.threw,
                                 !.returned = updated.value,
                                 !.prev = annotations,
                                 !.blobBefore = blob,
                                 !.modeBefore = storageMode]
    /\ UNCHANGED <<textVars, otherVars, useApi, storageMode, table, hookPhase,
                   selectedAnnotation, isLoading, pending, now, usedIds>>

\* updateAnnotation(id, updates), API backend: a warning, then loadFromAPI
\* sends its GET
UpdateRemote(id, updates) ==
    /\ useApi
    /\ hookPhase = "mounted"
    /\ pending' = Append(pending,
                         pendingOp("update", updateAnnotationRemote,
                                   [NoAnnotation EXCEPT !.id = id], <<>>,
                                   annotations))
    /\ last' = NoLast
    /\ UNCHANGED <<textVars, otherVars, useApi, blob, storageMode, table,
                   hookPhase, annotations, selectedAnnotation, isLoading,
                   error, now, usedIds>>

\* the POST of addToAPI or the DELETE of deleteFromAPI is settled: on
\* success the call goes on with loadFromAPI, on failure the error is thrown
\* into the catch branch of the hook
ServerWrite(i, net, dbOk) ==
    /\ i \in 1..Len(pending)
    /\ pending[i].phase = "write"
    /\ LET op == pending[i]
           res == IF op.kind = "create"
                  THEN addToAPI(op.ann, table, net, dbOk)
                  ELSE deleteFromAPI(op.ann.id, table, net, dbOk)
       IN
       /\ table' = res.table
       /\ IF res.threw
          THEN /\ annotations' =
                      IF op.kind = "delete"
                      THEN deleteRollback(annotations, op.prev)
                      ELSE annotations
               /\ error' = res.message
               /\ pending' = removeAt(pending, i)
               /\ last' = lastOf([op EXCEPT !.status = res.status], TRUE,
                                 <<>>)
          ELSE /\ pending' = [pending EXCEPT ![i].phase = "read",
                                             ![i].status = res.status]
               /\ last' = NoLast
               /\ UNCHANGED <<annotations, error>>
    /\ UNCHANGED <<textVars, otherVars, useApi, blob, storageMode, hookPhase,
                   selectedAnnotation, isLoading, now, usedIds>>

\* the GET of loadFromAPI is settled
ServerRead(i, net, dbOk) ==
    /\ i \in 1..Len(pending)
    /\ pending[i].phase = "read"
    /\ LET loaded == loadFromAPI(table, net, dbOk) IN
       pending' = [pending EXCEPT ![i].phase = "resp",
                                  ![i].data = loaded.value,
                                  ![i].readFailed = loaded.failed,
                                  ![i].readThrew = loaded.threw,
                                  ![i].message = loaded.message]
    /\ last' = NoLast
    /\ UNCHANGED <<textVars, otherVars, useApi, blob, storageMode, table,
                   hookPhase, annotations, selectedAnnotation, isLoading,
                   error, now, usedIds>>

\* the promise of the storage call resolves and the hook goes on after its
\* await
Deliver(i) ==
    /\ i \in 1..Len(pending)
    /\ pending[i].phase = "resp"
    /\ LET op == pending[i] IN
       /\ annotations' =
              IF op.kind = "delete"
              THEN IF op.readThrew
                   THEN deleteRollback(annotations, op.prev)
                   ELSE annotations
              ELSE IF op.readThrew THEN annotations ELSE op.data
       /\ error' = IF op.readThrew THEN op.message ELSE error
       /\ isLoading' = IF op.kind = "load" THEN FALSE ELSE isLoading
       /\ last' = lastOf(op, op.readThrew, op.data)
    /\ pending' = removeAt(pending, i)
    /\ UNCHANGED <<textVars, otherVars, useApi, blob, storageMode, table,
                   hookPhase, selectedAnnotation, now, usedIds>>

\* App.handleAnnotationClick -> selectAnnotation
Select(id) ==
    /\ hookPhase = "mounted"
    /\ id \in idsOf(annotations)
    /\ selectedAnnotation' = IF selectedAnnotation = id THEN NoId ELSE id
    /\ last' = NoLast
    /\ UNCHANGED <<textVars, otherVars, useApi, blob, storageMode, table,
                   hookPhase, annotations, isLoading, error, pending, now,
                   usedIds>>

\* the quota of localStorage is reached, or space is freed
SetStorageMode(mode) ==
    /\ ~useApi
    /\ storageMode \in {"ok", "full"}
    /\ mode \in {"ok", "full"} \ {storageMode}
    /\ storageMode' = mode
    /\ last' = NoLast
    /\ UNCHANGED <<textVars, otherVars, useApi, blob, table, hookPhase,
                   annotations, selectedAnnotation, isLoading, error, pending,
                   now, usedIds>>

\* the page is loaded again: the hook starts from its initial state
PageReload ==
    /\ hookPhase = "mounted"
    /\ hookPhase' = "init"
    /\ annotations' = <<>>
    /\ selectedAnnotation' = NoId
    /\ isLoading' = TRUE
    /\ error' = NoError
    /\ pending' = <<>>
    /\ last' = NoLast
    /\ UNCHANGED <<textVars, otherVars, useApi, blob, storageMode, table, now,
                   usedIds>>

\* no call of the hook is waiting for the backend
Idle == pending = <<>>

\* the application as its user drives it (the components never call
\* updateAnnotation); the user starts an operation only when the previous
\* one has completed
Next ==
    \/ MountLocal
    \/ MountRemote
    \/ \E p \in Positions, t \in UserTexts : Idle /\ CreateLocal(p, t)
    \/ \E p \in Positions, t \in UserTexts : Idle /\ CreateRemote(p, t)
    \/ \E id \in Ids : Idle /\ DeleteLocal(id)
    \/ \E id \in Ids : Idle /\ DeleteRemote(id)
    \/ \E i \in 1..Len(pending), net \in NetOutcomes, dbOk \in BOOLEAN :
           ServerWrite(i, net, dbOk)
    \/ \E i \in 1..Len(pending), net \in NetOutcomes, dbOk \in BOOLEAN :
           ServerRead(i, net, dbOk)
    \/ \E i \in 1..Len(pending) : Deliver(i)
    \/ \E id \in Ids : Select(id)
    \/ \E mode \in {"ok", "full"} : SetStorageMode(mode)
    \/ Idle /\ PageReload

Spec == Init /\ [][Next]_vars

(***************************************************************************)
(* SpecUpdate: the calls of the hook that write, updateAnnotation          *)
(* included, one after the other; the table may hold an item of another    *)
(* scene.                                                                  *)
(***************************************************************************)
InitUpdate ==
    /\ textIn = <<>>
    /\ textOut = <<>>
    /\ textPhase = "unused"
    /\ useApi \in BOOLEAN
    /\ blob \in IF useApi THEN {NoBlob}
                ELSE {NoBlob, [NoBlob EXCEPT !.kind = "invalid"]}
    /\ storageMode \in IF useApi THEN {"ok"} ELSE {"ok", "full", "denied"}
    /\ table \in IF useApi THEN {{}, {OtherSceneItem}} ELSE {{}}
    /\ hookPhase = "init"
    /\ annotations = <<>>
    /\ selectedAnnotation = NoId
    /\ isLoading = TRUE
    /\ error = NoError
    /\ pending = <<>>
    /\ now = 1
    /\ usedIds = {}
    /\ last = NoLast
    /\ IdleExcept({"app"})

NextUpdate ==
    \/ MountLocal
    \/ MountRemote
    \/ Idle /\ CreateLocal(1, <<CharA>>)
    \/ Idle /\ CreateRemote(1, <<CharA>>)
    \/ \E id \in Ids : Idle /\ DeleteLocal(id)
    \/ \E id \in Ids : Idle /\ DeleteRemote(id)
    \/ \E id \in Ids, u \in UpdateInputs : Idle /\ UpdateLocal(id, u)
    \/ \E id \in Ids, u \in UpdateInputs : Idle /\ UpdateRemote(id, u)
    \/ \E i \in 1..Len(pending), net \in NetOutcomes, dbOk \in BOOLEAN :
           ServerWrite(i, net, dbOk)
    \/ \E i \in 1..Len(pending), net \in NetOutcomes, dbOk \in BOOLEAN :
           ServerRead(i, net, dbOk)
    \/ \E i \in 1..Len(pending) : Deliver(i)

SpecUpdate == InitUpdate /\ [][NextUpdate]_vars

(***************************************************************************)
(* SpecApi, SpecApiFaulty: requests that reach the handler directly        *)
(* through the API gateway, from any client.  In SpecApi the table client  *)
(* answers every command, in SpecApiFaulty docClient.send may raise.       *)
(***************************************************************************)
\* texts of a posted document: none, one of exactly 256 bytes, one of 256
\* UTF-16 units and 258 bytes
ApiTexts ==
    {<<>>, Pad(HandlerTextLimit),
     Pad(HandlerTextLimit - 1) \o <<CharEuro>>}

\* the ids the clients of the API send
ApiIds == {1, 2}

\* posted documents: ones without a sceneId, ones for another scene with
\* an id that is also used without a sceneId, and ones that lack the id,
\* the position or both
ApiDocs ==
    [id : ApiIds, sceneId : {""}, position : {1}, text : ApiTexts,
     createdAt : {1}]
        \cup [id : {1}, sceneId : {OTHER_SCENE_ID}, position : {1},
              text : ApiTexts, createdAt : {1}]
        \cup [id : {NoId}, sceneId : {""}, position : {1}, text : ApiTexts,
              createdAt : {1}]
        \cup [id : {NoId, 1}, sceneId : {""}, position : {NoPosition},
              text : {<<>>}, createdAt : {1}]

\* the body matters to POST only, the query string to GET and DELETE only
ApiEvents ==
    {[NoEvent EXCEPT !.method = m] : m \in {"OPTIONS", "PUT"}}
        \cup {[NoEvent EXCEPT !.method = "GET", !.sceneId = sc] :
                 sc \in {"", DEFAULT_SCENE_ID, OTHER_SCENE_ID}}
        \cup {[NoEvent EXCEPT !.method = "DELETE"]}
        \cup {[NoEvent EXCEPT !.method = "DELETE", !.sceneId = sc, !.id = id] :
                 sc \in {"", DEFAULT_SCENE_ID, OTHER_SCENE_ID}, id \in ApiIds}
        \cup {[NoEvent EXCEPT !.method = "POST", !.body = b] :
                 b \in {NoBody, BadJson} \cup {jsonBody(d) : d \in ApiDocs}}

InitApi ==
    /\ textIn = <<>>
    /\ textOut = <<>>
    /\ textPhase = "unused"
    /\ useApi = TRUE
    /\ blob = NoBlob
    /\ storageMode = "ok"
    /\ table = {}
    /\ hookPhase = "init"
    /\ annotations = <<>>
    /\ selectedAnnotation = NoId
    /\ isLoading = TRUE
    /\ error = NoError
    /\ pending = <<>>
    /\ now = 1
    /\ usedIds = {}
    /\ last = NoLast
    /\ IdleExcept({"app"})

\* one invocation of the handler
Request(event, dbOk) ==
    /\ LET result == handler(event, table, dbOk) IN
       /\ table' = result.table
       /\ last' = [NoLast EXCEPT !.op = "request", !.event = event,
                                 !.dbOk = dbOk, !.tableBefore = table,
                                 !.response =
                                     [statusCode |-> result.statusCode,
                                      annotations |-> result.annotations,
                                      id |-> result.id,
                                      threw |-> result.threw]]
    /\ UNCHANGED <<textVars, otherVars, useApi, blob, storageMode, hookPhase,
                   annotations, selectedAnnotation, isLoading, error,
                   pending, now, usedIds>>

NextApi == \E event \in ApiEvents : Request(event, TRUE)

SpecApi == InitApi /\ [][NextApi]_vars

NextApiFaulty == \E event \in ApiEvents, dbOk \in BOOLEAN : Request(event, dbOk)

SpecApiFaulty == InitApi /\ [][NextApiFaulty]_vars

(***************************************************************************)
(* SpecText: validateText applied to texts around the byte limit           *)
(***************************************************************************)
RECURSIVE SeqsUpTo(_, _)
SeqsUpTo(S, n) ==
    IF n = 0 THEN {<<>>}
    ELSE LET shorter == SeqsUpTo(S, n - 1) IN
         shorter \cup {Append(s, c) : s \in shorter, c \in S}

PadLengths == {0, 1} \cup ((MAX_TEXT_BYTES - PadSlack)..(MAX_TEXT_BYTES + 1))

\* an optional BOM, a run of 'a', a tail of arbitrary characters
TestTexts ==
    {head \o Pad(n) \o tail :
        head \in {<<>>, <<CharBOM>>}, n \in PadLengths,
        tail \in SeqsUpTo(Alphabet, MaxTail)}

TextInit ==
    /\ textIn \in TestTexts
    /\ textOut = <<>>
    /\ textPhase = "input"
    /\ useApi = FALSE
    /\ blob = NoBlob
    /\ storageMode = "ok"
    /\ table = {}
    /\ hookPhase = "init"
    /\ annotations = <<>>
    /\ selectedAnnotation = NoId
    /\ isLoading = TRUE
    /\ error = NoError
    /\ pending = <<>>
    /\ now = 1
    /\ usedIds = {}
    /\ last = NoLast
    /\ IdleExcept({"app"})

Validate ==
    /\ textPhase = "input"
    /\ textOut' = validateText(textIn)
    /\ textPhase' = "validated"
    /\ UNCHANGED <<textIn, appVars, otherVars>>

\* the stored text is validated again on every write
Revalidate ==
    /\ textPhase = "validated"
    /\ textOut' = validateText(textOut)
    /\ textPhase' = "revalidated"
    /\ UNCHANGED <<textIn, appVars, otherVars>>

TextNext == Validate \/ Revalidate

SpecText == TextInit /\ [][TextNext]_vars

(***************************************************************************)
(* C1: for every text t the UTF-8 encoding of validateText(t) is at most   *)
(* MAX_TEXT_BYTES (256) bytes long.                                        *)
(***************************************************************************)
C1_OutputWithinLimit ==
    textPhase = "validated" => byteLength(textOut) <= MAX_TEXT_BYTES

(***************************************************************************)
(* C2: for every text t longer than 256 UTF-8 bytes validateText(t) is a   *)
(* prefix of t made of whole characters of t.                              *)
(***************************************************************************)
C2_TruncationIsPrefix ==
    (textPhase = "validated" /\ byteLength(textIn) > MAX_TEXT_BYTES)
        => IsPrefix(textOut, textIn)

(***************************************************************************)
(* C3: validateText is idempotent: a text of at most 256 UTF-8 bytes is    *)
(* returned unchanged, and validateText(validateText(t)) = validateText(t) *)
(* for every text t.                                                       *)
(***************************************************************************)
C3_Idempotent ==
    /\ (textPhase = "validated" /\ byteLength(textIn) <= MAX_TEXT_BYTES)
            => textOut = textIn
    /\ textPhase = "revalidated" => textOut = validateText(textIn)

\* a text over the limit was cut in the middle of a character, and the
\* result was validated a second time
C3_Witness ==
    /\ textPhase = "revalidated"
    /\ byteLength(textIn) > MAX_TEXT_BYTES
    /\ ~IsPrefix(textOut, textIn)


(***************************************************************************)
(* What a loadAnnotations() that follows the current state can return, and *)
(* what the store held when the call recorded in last was issued.          *)
(***************************************************************************)
FollowingLoads ==
    IF useApi
    THEN {loadFromAPI(table, net, dbOk).value :
              net \in NetOutcomes, dbOk \in BOOLEAN}
    ELSE {loadFromLocalStorage(blob, storageMode).value}

\* the following load when neither the storage nor the network fails
FollowingLoadOk ==
    IF useApi THEN loadFromAPI(table, "ok", TRUE).value
    ELSE loadFromLocalStorage(blob, "ok").value

StoredBefore ==
    IF useApi THEN elementsOf(storedInTable(last.tableBefore))
    ELSE elementsOf(storedInBlob(last.blobBefore))

StoredNow ==
    IF useApi THEN elementsOf(storedInTable(table))
    ELSE elementsOf(storedInBlob(blob))

\* the write of the call recorded in last reached the store
WriteSucceeded == useApi \/ last.modeBefore = "ok"

C6_DeleteMissingId ==
    (/\ last.op = "delete"
     /\ last.id \notin {a.id : a \in StoredBefore}
     /\ useApi => last.status = 200) =>
        /\ ~last.threw
        /\ IF useApi THEN table = last.tableBefore
           ELSE storedInBlob(blob) = storedInBlob(last.blobBefore)

\* the DELETE of an id that is not in the table was answered 200 while the
\* table held another annotation
C6_Witness ==
    /\ last.op = "delete"
    /\ useApi
    /\ last.status = 200
    /\ last.id \notin {a.id : a \in StoredBefore}
    /\ StoredBefore # {}

(***************************************************************************)
(* C7: loadAnnotations() never throws; when the storage key is missing,    *)
(* the stored text is not JSON, the document has no annotations field,     *)
(* reading the storage raises or the request fails, it returns an empty    *)
(* list, and it leaves the stored data as it was.                          *)
(***************************************************************************)
LoadFailed ==
    IF useApi THEN last.readFailed
    ELSE last.modeBefore = "denied" \/ last.blobBefore.kind # "store"

C7_LoadNeverThrows ==
    last.op = "load" =>
        /\ ~last.threw
        /\ LoadFailed => last.returned = <<>>
        /\ blob = last.blobBefore
        /\ table = last.tableBefore

\* a load of a stored text that is not JSON
C7_Witness ==
    /\ last.op = "load"
    /\ ~useApi
    /\ last.modeBefore # "denied"
    /\ last.blobBefore.kind = "invalid"

(***************************************************************************)
(* C8: on the API backend a failed load request is surfaced to the caller  *)
(* as a thrown failure, so that after the mount-time load fails the error  *)
(* state of the hook is non-null.                                          *)
(***************************************************************************)
C8_FailedLoadSetsError ==
    (last.op = "load" /\ useApi /\ last.readFailed) =>
        /\ last.threw
        /\ error # NoError

(***************************************************************************)
(* C9: optimistic delete with rollback.  deleteAnnotation(id) removes the  *)
(* annotation from the in-memory list before the backend call resolves; if *)
(* the backend call fails, the list is restored to the list as it was when *)
(* the delete was issued, the error state is set and the failure is        *)
(* rethrown; if it succeeds the annotation stays removed.                  *)
(***************************************************************************)
C9_OptimisticDelete ==
    /\ last.op = "deleteIssued" =>
           /\ last.id \notin idsOf(annotations)
           /\ \E i \in 1..Len(pending) :
                  /\ pending[i].kind = "delete"
                  /\ pending[i].ann.id = last.id
                  /\ pending[i].phase = "write"
    /\ (last.op = "delete" /\ last.failed) =>
           /\ annotations = last.prev
           /\ error # NoError
           /\ last.threw
    /\ (last.op = "delete" /\ ~last.failed) =>
           /\ last.id \notin idsOf(annotations)
           /\ ~last.threw

\* a delete failed and the annotation is back in the list
C9_Witness ==
    /\ last.op = "delete"
    /\ last.failed
    /\ last.id \in idsOf(annotations)
    /\ Len(annotations) > 1

(***************************************************************************)
(* C10: a create issued through the client is never rejected by the        *)
(* handler's check of the text length: the text the client sends was       *)
(* truncated to at most 256 bytes before.                                  *)
(***************************************************************************)
C10_ClientCreateNeverRejected ==
    (last.op = "create" /\ useApi) =>
        ~(/\ last.status = 400
          /\ byteLength(validateText(validateText(last.userText)))
                 > HandlerTextLimit)

(***************************************************************************)
(* C11: on the Local backend, updateAnnotation(id, {text: t}) sets the     *)
(* text of the annotation with that id to validateText(t) for every        *)
(* string t, leaves every other annotation unchanged, persists the result, *)
(* and leaves the collection unchanged when no annotation has that id.     *)
(***************************************************************************)
C11_UpdateSetsText ==
    (~useApi /\ last.op = "update" /\ last.updates.fields = {"text"}) =>
        LET before == storedInBlob(last.blobBefore)
            expected ==
                [k \in 1..Len(before) |->
                    IF before[k].id = last.id
                    THEN [before[k] EXCEPT
                             !.text = validateText(last.updates.text)]
                    ELSE before[k]]
        IN
        /\ last.returned = expected
        /\ storedInBlob(blob) = expected

C13_IdentityImmutable ==
    LET before == storedInBlob(last.blobBefore)
        after == storedInBlob(blob)
        same(a, b) ==
            a.id = b.id /\ a.position = b.position
                /\ a.createdAt = b.createdAt
    IN
    /\ (~useApi /\ last.op \in {"create", "update"}) =>
           \A k \in 1..Len(before) :
               k <= Len(after) /\ same(before[k], after[k])
    /\ (~useApi /\ last.op = "delete") =>
           \A b \in elementsOf(after) :
               \E a \in elementsOf(before) : same(a, b)
    /\ (useApi /\ last.op \in {"create", "update", "delete"}) =>
           \A a \in last.tableBefore, b \in table :
               (a.sceneId = b.sceneId /\ a.id = b.id) =>
                   (a.position = b.position /\ a.createdAt = b.createdAt)

(***************************************************************************)
(* C14: after any sequence of create, update and delete operations, no     *)
(* two annotations in a store (Local blob, or Remote table within one      *)
(* sceneId) have the same id.                                              *)
(***************************************************************************)
C14_UniqueIds ==
    /\ LET stored == storedInBlob(blob) IN
       \A j, k \in 1..Len(stored) : stored[j].id = stored[k].id => j = k
    /\ \A a, b \in table : (a.sceneId = b.sceneId /\ a.id = b.id) => a = b

(***************************************************************************)
(* C15: Remote handler POST: a request with a missing body or with invalid *)
(* data (body that lacks id, lacks position, or is not a valid annotation  *)
(* document) is answered with 400 and writes nothing to the table.         *)
(***************************************************************************)
C15_InvalidPostIs400 ==
    (/\ last.op = "request"
     /\ last.event.method = "POST"
     /\ \/ last.event.body.kind \in {"none", "badjson"}
        \/ last.event.body.doc.id = NoId
        \/ last.event.body.doc.position = NoPosition) =>
        /\ last.response.statusCode = 400
        /\ table = last.tableBefore

(***************************************************************************)
(* C16: Remote handler POST: a body whose text has a UTF-8 encoding longer *)
(* than 256 bytes is answered with 400 (never 500) and nothing is written; *)
(* a body with id, position and text of at most 256 bytes is not rejected  *)
(* for its text (it is not answered with 400).                             *)
(***************************************************************************)
C16_TextLimitIs400 ==
    (/\ last.op = "request"
     /\ last.event.method = "POST"
     /\ last.event.body.kind = "doc") =>
        LET doc == last.event.body.doc IN
        /\ byteLength(doc.text) > 256 =>
               /\ last.response.statusCode = 400
               /\ table = last.tableBefore
        /\ (/\ doc.id # NoId
            /\ doc.position # NoPosition
            /\ byteLength(doc.text) <= 256) =>
               last.response.statusCode # 400

\* a document with id and position whose text has 256 UTF-16 units and more
\* than 256 bytes was answered with 400 while the table client was failing
C16_Witness ==
    /\ last.op = "request"
    /\ last.event.method = "POST"
    /\ last.event.body.kind = "doc"
    /\ last.event.body.doc.id # NoId
    /\ last.event.body.doc.position # NoPosition
    /\ Len(last.event.body.doc.text) <= 256
    /\ byteLength(last.event.body.doc.text) > 256
    /\ ~last.dbOk
    /\ last.response.statusCode = 400

(***************************************************************************)
(* C17: Remote handler POST with a valid body answers 201 and upserts the  *)
(* item under key (sceneId, id), with sceneId defaulted to 'lion' when     *)
(* absent: afterwards the table holds exactly one item for that key, equal *)
(* to the posted annotation, also when an item with the same key existed   *)
(* before (it is overwritten).                                             *)
(***************************************************************************)
C17_PostUpserts ==
    (/\ last.op = "request"
     /\ last.event.method = "POST"
     /\ last.event.body.kind = "doc"
     /\ last.event.body.doc.id # NoId
     /\ last.event.body.doc.position # NoPosition
     /\ byteLength(last.event.body.doc.text) <= 256) =>
        LET doc == last.event.body.doc
            posted == [doc EXCEPT !.sceneId = IF doc.sceneId = ""
                                              THEN "lion" ELSE doc.sceneId]
        IN
        /\ last.response.statusCode = 201
        /\ {a \in table : a.sceneId = posted.sceneId /\ a.id = posted.id}
               = {posted}

\* a document without sceneId was posted over a different item with the same
\* key and answered with 201
C17_Witness ==
    /\ last.op = "request"
    /\ last.event.method = "POST"
    /\ last.event.body.kind = "doc"
    /\ last.event.body.doc.sceneId = ""
    /\ last.response.statusCode = 201
    /\ \E a \in last.tableBefore :
           /\ a.sceneId = "lion"
           /\ a.id = last.event.body.doc.id
           /\ a.text # last.event.body.doc.text

(***************************************************************************)
(* C18: Remote handler GET answers 200 with exactly the items whose        *)
(* sceneId equals the requested sceneId ('lion' when the parameter is      *)
(* omitted), never an item of another scene, and answers 200 with an empty *)
(* annotations list when no item exists; GET never changes the table.      *)
(***************************************************************************)
C18_GetReturnsScene ==
    (last.op = "request" /\ last.event.method = "GET") =>
        LET requested == IF last.event.sceneId = "" THEN "lion"
                         ELSE last.event.sceneId
            items == {a \in last.tableBefore : a.sceneId = requested}
        IN
        /\ last.response.statusCode = 200
        /\ elementsOf(last.response.annotations) = items
        /\ Len(last.response.annotations) = Cardinality(items)
        /\ table = last.tableBefore

\* a GET for another scene than the default one was answered with the items
\* of that scene while the table held items of the default scene as well
C18_Witness ==
    /\ last.op = "request"
    /\ last.event.method = "GET"
    /\ last.event.sceneId = OTHER_SCENE_ID
    /\ last.response.annotations # <<>>
    /\ \E a \in table : a.sceneId = "lion"

(***************************************************************************)
(* C19: Remote handler DELETE: without an id parameter it answers 400 and  *)
(* changes nothing; with an id it removes only the item with key (sceneId  *)
(* or 'lion', id), leaves every other item (including items with the same  *)
(* id in another scene) unchanged, and answers 200 with that id.           *)
(***************************************************************************)
C19_DeleteByKey ==
    (last.op = "request" /\ last.event.method = "DELETE") =>
        LET scene == IF last.event.sceneId = "" THEN "lion"
                     ELSE last.event.sceneId
        IN
        IF last.event.id = NoId
        THEN /\ last.response.statusCode = 400
             /\ table = last.tableBefore
        ELSE /\ last.response.statusCode = 200
             /\ last.response.id = last.event.id
             /\ table = {a \in last.tableBefore :
                             ~(a.sceneId = scene /\ a.id = last.event.id)}

\* a DELETE without sceneId removed an item of the default scene while an
\* item with the same id in another scene and an item with another id in
\* the default scene stayed
C19_Witness ==
    /\ last.op = "request"
    /\ last.event.method = "DELETE"
    /\ last.event.sceneId = ""
    /\ \E a \in last.tableBefore :
           a.sceneId = "lion" /\ a.id = last.event.id
    /\ \E a \in table : a.sceneId = OTHER_SCENE_ID /\ a.id = last.event.id
    /\ \E a \in table : a.sceneId = "lion" /\ a.id # last.event.id

(***************************************************************************)
(* C20: the Remote handler never lets an exception escape: for every event *)
(* (any method, any body, any failure of the table client) it returns a    *)
(* response whose status is one of 200, 201, 204, 400, 405, 500, with 500  *)
(* used for every uncaught error (an error raised in the try block).       *)
(***************************************************************************)
C20_NoExceptionEscapes ==
    last.op = "request" =>
        /\ ~last.response.threw
        /\ last.response.statusCode \in {200, 201, 204, 400, 405, 500}
        /\ (\/ /\ last.event.method = "POST"
               /\ last.event.body.kind = "badjson"
            \/ /\ ~last.dbOk
               /\ \/ last.event.method = "GET"
                  \/ last.event.method = "DELETE" /\ last.event.id # NoId
                  \/ /\ last.event.method = "POST"
                     /\ last.event.body.kind = "doc"
                     /\ last.event.body.doc.id # NoId
                     /\ last.event.body.doc.position # NoPosition
                     /\ byteLength(last.event.body.doc.text) <= 256) =>
               last.response.statusCode = 500

\* a valid POST was answered with 500 because the table client failed
C20_Witness ==
    /\ last.op = "request"
    /\ last.event.method = "POST"
    /\ last.event.body.kind = "doc"
    /\ last.event.body.doc.id # NoId
    /\ ~last.dbOk
    /\ last.response.statusCode = 500
    /\ table = last.tableBefore

(***************************************************************************)
(* The point cloud generator on its own: one call of                       *)
(* generateLionPointCloud(numPoints), one step per point written.          *)
(***************************************************************************)
\* the greatest number of points asked for
MaxPoints == 116

\* numPoints: too few for any shape (0 .. 3), enough for the heaviest shape
\* only (4), and around the sum of the weights in tenths, where every shape
\* gets points
PointCounts == (0..4) \cup ((totalWeight - 1)..MaxPoints)

SamplerInit ==
    /\ IdleExcept({"sampler"})
    /\ numPoints \in PointCounts
    /\ randomState \in 0..(Len(NoiseValues) - 1)
    /\ positions = <<>>
    /\ colors = <<>>
    /\ currentPointIndex = 0
    /\ shapeIndex = 0
    /\ loopI = 0
    /\ samplerPhase = "call"
    /\ writes = <<>>
    /\ noiseDraws = 0
    /\ lastPoint = NoPoint

\* new Float32Array(numPoints * 3), twice; the first shape of forEach
Allocate ==
    /\ samplerPhase = "call"
    /\ positions' = [j \in 1..(numPoints * 3) |-> 0]
    /\ colors' = [j \in 1..(numPoints * 3) |-> 0]
    /\ writes' = [k \in 1..numPoints |-> 0]
    /\ currentPointIndex' = 0
    /\ shapeIndex' = 1
    /\ loopI' = 0
    /\ samplerPhase' = "shapes"
    /\ UNCHANGED <<textVars, appVars, backendVars, formVars, netlifyVars,
                   numPoints, randomState,
                   noiseDraws, lastPoint>>

\* i < count && currentPointIndex < numPoints
inShapeLoop ==
    /\ loopI < shapeCount(shapeIndex, numPoints)
    /\ currentPointIndex < numPoints

\* one turn of the inner loop: a point of the shape and its colour
ShapePoint ==
    /\ samplerPhase = "shapes"
    /\ inShapeLoop
    /\ LET draw == noiseDraws + 1
           colorVar == noiseOf(randomState, draw)
           base == ShapeColors[shapeIndex]
       IN /\ positions' = writeTriple(positions, currentPointIndex,
                              <<shapeIndex, shapeIndex, shapeIndex>>)
          /\ colors' = writeTriple(colors, currentPointIndex,
                           <<clamp(base[1] + colorVar),
                             clamp(base[2] + colorVar),
                             clamp(base[3] + colorVar)>>)
          /\ noiseDraws' = draw
          /\ lastPoint' = [shape |-> shapeIndex,
                           draws |-> <<draw, draw, draw>>,
                           noise |-> <<colorVar, colorVar, colorVar>>]
    /\ writes' = [writes EXCEPT ![currentPointIndex + 1] = @ + 1]
    /\ currentPointIndex' = currentPointIndex + 1
    /\ loopI' = loopI + 1
    /\ UNCHANGED <<textVars, appVars, backendVars, formVars, netlifyVars,
                   numPoints, randomState, shapeIndex,
                   samplerPhase>>

\* the inner loop is over: forEach goes on with the next shape
NextShape ==
    /\ samplerPhase = "shapes"
    /\ ~inShapeLoop
    /\ shapeIndex < Len(Weights)
    /\ shapeIndex' = shapeIndex + 1
    /\ loopI' = 0
    /\ UNCHANGED <<textVars, appVars, backendVars, formVars, netlifyVars,
                   numPoints, randomState, positions,
                   colors, currentPointIndex, samplerPhase, writes,
                   noiseDraws, lastPoint>>

\* the inner loop of the last shape is over
EndShapes ==
    /\ samplerPhase = "shapes"
    /\ ~inShapeLoop
    /\ shapeIndex = Len(Weights)
    /\ samplerPhase' = "padding"
    /\ UNCHANGED <<textVars, appVars, backendVars, formVars, netlifyVars,
                   numPoints, randomState, positions,
                   colors, currentPointIndex, shapeIndex, loopI, writes,
                   noiseDraws, lastPoint>>

\* one turn of the loop that fills the remaining points
PadPoint ==
    /\ samplerPhase = "padding"
    /\ needsPadding(currentPointIndex, numPoints)
    /\ positions' = writeTriple(positions, currentPointIndex, <<0, 0, 0>>)
    /\ colors' = writeTriple(colors, currentPointIndex, <<0, 0, 0>>)
    /\ writes' = [writes EXCEPT ![currentPointIndex + 1] = @ + 1]
    /\ currentPointIndex' = currentPointIndex + 1
    /\ UNCHANGED <<textVars, appVars, backendVars, formVars, netlifyVars,
                   numPoints, randomState, shapeIndex,
                   loopI, samplerPhase, noiseDraws, lastPoint>>

\* return { positions, colors }
SamplerReturn ==
    /\ samplerPhase = "padding"
    /\ ~needsPadding(currentPointIndex, numPoints)
    /\ samplerPhase' = "returned"
    /\ UNCHANGED <<textVars, appVars, backendVars, formVars, netlifyVars,
                   numPoints, randomState, positions,
                   colors, currentPointIndex, shapeIndex, loopI, writes,
                   noiseDraws, lastPoint>>

SamplerNext ==
    \/ Allocate
    \/ ShapePoint
    \/ NextShape
    \/ EndShapes
    \/ PadPoint
    \/ SamplerReturn

SpecSampler == SamplerInit /\ [][SamplerNext]_vars

(***************************************************************************)
(* C21: generateLionPointCloud(N) returns two arrays of exactly 3N         *)
(* entries (none for N = 0); every point index below N is written exactly  *)
(* once, no index from N on is written, and every colour component is in   *)
(* [0, 1].                                                                 *)
(***************************************************************************)
C21_ArraysFilledOnce ==
    /\ currentPointIndex <= numPoints
    /\ samplerPhase \in {"shapes", "padding", "returned"} =>
          /\ Len(positions) = 3 * numPoints
          /\ Len(colors) = 3 * numPoints
          /\ DOMAIN writes = 1..numPoints
          /\ \A k \in 1..numPoints :
                writes[k] = (IF k <= currentPointIndex THEN 1 ELSE 0)
          /\ \A j \in 1..Len(colors) : colors[j] >= 0 /\ colors[j] <= 1000
    /\ samplerPhase = "returned" => \A k \in 1..numPoints : writes[k] = 1

\* a call that returned points of shapes and padding points
C21_Witness ==
    /\ samplerPhase = "returned"
    /\ numPoints >= totalWeight - 1
    /\ positions[1] # 0
    /\ positions[3 * numPoints] = 0
    /\ \E j \in 1..Len(colors) : colors[j] = 0

(***************************************************************************)
(* C22: shape i receives exactly floor(weight_i / totalWeight * N) points, *)
(* in one contiguous range, the ranges in definition order; the counts sum *)
(* to at most N, and the indices from that sum up to N are padding points  *)
(* at (0, 0, 0) with colour (0, 0, 0), as many as the shortfall.           *)
(***************************************************************************)
C22_SharesAndPadding ==
    LET share(s) ==
            CHOOSE c \in 0..numPoints :
                /\ c * totalWeight <= Weights[s] * numPoints
                /\ Weights[s] * numPoints < (c + 1) * totalWeight
        start[s \in 1..(Len(Weights) + 1)] ==
            IF s = 1 THEN 0 ELSE start[s - 1] + share(s - 1)
        triple(a, k) == <<a[3 * k + 1], a[3 * k + 2], a[3 * k + 3]>>
    IN samplerPhase = "returned" =>
          /\ start[Len(Weights) + 1] <= numPoints
          /\ \A s \in 1..Len(Weights) :
                \A k \in start[s]..(start[s] + share(s) - 1) :
                    triple(positions, k) = <<s, s, s>>
          /\ \A k \in start[Len(Weights) + 1]..(numPoints - 1) :
                /\ triple(positions, k) = <<0, 0, 0>>
                /\ triple(colors, k) = <<0, 0, 0>>

\* a call that returned points of every shape and padding points
C22_Witness ==
    /\ samplerPhase = "returned"
    /\ \A s \in 1..Len(Weights) : \E j \in 1..Len(positions) : positions[j] = s
    /\ \E j \in 1..Len(positions) : positions[j] = 0

(***************************************************************************)
(* C23: for every non-padding point each of the three colour channels is   *)
(* the base colour of the shape plus a noise value of its own in           *)
(* [-0.05, 0.05], clamped to [0, 1]: the three values of one point are     *)
(* independent, each one drawn from Math.random() by a call of its own.    *)
(***************************************************************************)
C23_IndependentNoise ==
    lastPoint.shape # 0 =>
        LET k == currentPointIndex - 1
            base == ShapeColors[lastPoint.shape]
        IN /\ \A c \in 1..3 :
                /\ lastPoint.noise[c] >= -50
                /\ lastPoint.noise[c] <= 50
                /\ samplerPhase = "shapes" =>
                       colors[3 * k + c] = clamp(base[c] + lastPoint.noise[c])
           /\ \A c, d \in 1..3 :
                c # d => lastPoint.draws[c] # lastPoint.draws[d]

(***************************************************************************)
(* The public API of storage.ts on its two backends, side by side: the     *)
(* same call is made on the localStorage backend (blob) and on the API     *)
(* backend (the client and the handler on table) by one client; storage    *)
(* has room, every request is delivered and the table client answers.      *)
(***************************************************************************)
addAnnotationRemote(tbl, annotation) ==
    LET validated == [annotation EXCEPT !.text = validateText(annotation.text)]
        added == addToAPI(validated, tbl, "ok", TRUE)
    IN
    IF added.threw THEN [threw |-> TRUE, value |-> <<>>, table |-> added.table]
    ELSE [threw |-> FALSE,
          value |-> loadFromAPI(added.table, "ok", TRUE).value,
          table |-> added.table]

deleteAnnotationRemote(tbl, id) ==
    LET deleted == deleteFromAPI(id, tbl, "ok", TRUE) IN
    IF deleted.threw
    THEN [threw |-> TRUE, value |-> <<>>, table |-> deleted.table]
    ELSE [threw |-> FALSE,
          value |-> loadFromAPI(deleted.table, "ok", TRUE).value,
          table |-> deleted.table]

\* both stores are empty
BackendsInit == IdleExcept({})

\* loadAnnotations()
BothLoad ==
    /\ LET local == loadFromLocalStorage(blob, storageMode)
           remote == loadFromAPI(table, "ok", TRUE)
       IN
       /\ blob' = local.blob
       /\ table' = table
       /\ localResult' =
              [op |-> "load", threw |-> local.threw, value |-> local.value]
       /\ remoteResult' =
              [op |-> "load", threw |-> remote.threw, value |-> remote.value]
    /\ UNCHANGED <<textVars, samplerVars, formVars, netlifyVars, useApi,
                   storageMode, hookPhase, annotations, selectedAnnotation,
                   isLoading, error, pending, now, usedIds, last>>

\* addAnnotation(annotation), the annotation built as createAnnotation
\* builds it
BothCreate(position, text) ==
    /\ \E id \in freshIds :
        LET annotation == newAnnotation(id, position, text)
            local == addAnnotationLocal(blob, storageMode, annotation)
            remote == addAnnotationRemote(table, annotation)
        IN
        /\ blob' = local.blob
        /\ table' = remote.table
        /\ localResult' =
              [op |-> "create", threw |-> local.threw, value |-> local.value]
        /\ remoteResult' =
              [op |-> "create", threw |-> remote.threw, value |-> remote.value]
        /\ usedIds' = usedIds \cup {id}
    /\ now' = now + 1
    /\ UNCHANGED <<textVars, samplerVars, formVars, netlifyVars, useApi,
                   storageMode, hookPhase, annotations, selectedAnnotation,
                   isLoading, error, pending, last>>

\* deleteAnnotation(id)
BothDelete(id) ==
    /\ LET local == deleteAnnotationLocal(blob, storageMode, id)
           remote == deleteAnnotationRemote(table, id)
       IN
       /\ blob' = local.blob
       /\ table' = remote.table
       /\ localResult' =
              [op |-> "delete", threw |-> local.threw, value |-> local.value]
       /\ remoteResult' =
              [op |-> "delete", threw |-> remote.threw, value |-> remote.value]
    /\ UNCHANGED <<textVars, samplerVars, formVars, netlifyVars, useApi,
                   storageMode, hookPhase, annotations, selectedAnnotation,
                   isLoading, error, pending, now, usedIds, last>>

BackendsNext ==
    \/ BothLoad
    \/ \E p \in Positions, t \in UserTexts : BothCreate(p, t)
    \/ \E id \in Ids : BothDelete(id)

SpecBackends == BackendsInit /\ [][BackendsNext]_vars

(***************************************************************************)
(* C24: load, create and delete mean the same on both backends: after      *)
(* every sequence of calls by one client with no I/O failure, the call     *)
(* made last succeeds on both backends and returns the same annotations,   *)
(* up to order.                                                            *)
(***************************************************************************)
C24_BackendsAgree ==
    localResult.op # "none" =>
        /\ localResult.threw = remoteResult.threw
        /\ Len(localResult.value) = Len(remoteResult.value)
        /\ elementsOf(localResult.value) = elementsOf(remoteResult.value)

(***************************************************************************)
(* AnnotationForm and App.handleSaveAnnotation on the API backend: the     *)
(* user clicks a point, types, and submits with the Save button or with    *)
(* Ctrl+Enter; onSave is App.handleSaveAnnotation, which awaits            *)
(* createAnnotation.  The user submits again only when the previous save   *)
(* has completed.                                                          *)
(***************************************************************************)
CharSpace == 32

RECURSIVE trimStart(_)
trimStart(t) ==
    IF t # <<>> /\ Head(t) = CharSpace THEN trimStart(Tail(t)) ELSE t

RECURSIVE trimEnd(_)
trimEnd(t) ==
    IF t # <<>> /\ t[Len(t)] = CharSpace
    THEN trimEnd(SubSeq(t, 1, Len(t) - 1)) ELSE t

\* String.prototype.trim, the white space being the space
trim(t) == trimEnd(trimStart(t))

\* disabled={!text.trim() || isOverLimit}, isOverLimit being
\* byteCount > MAX_BYTES
submitDisabled(t) == trim(t) = <<>> \/ byteLength(t) > MAX_TEXT_BYTES

\* a handler that closes the form whatever createAnnotation did
positionAfterSave_AlwaysCloses(position, threw) == NoPosition

\* try { await createAnnotation(...); setPendingPosition(null) } catch { }
positionAfterSave(position, threw) ==
    IF threw THEN position ELSE NoPosition

\* what the user types into the text area
FormTexts ==
    {<<CharSpace>>, <<CharSpace, CharA, CharSpace>>,
     Pad(MAX_TEXT_BYTES + 1), Pad(MAX_TEXT_BYTES - 1) \o <<CharEuro>>}

FormInit ==
    /\ textIn = <<>>
    /\ textOut = <<>>
    /\ textPhase = "unused"
    /\ useApi = TRUE
    /\ blob = NoBlob
    /\ storageMode = "ok"
    /\ table = {}
    /\ hookPhase = "mounted"
    /\ annotations = <<>>
    /\ selectedAnnotation = NoId
    /\ isLoading = FALSE
    /\ error = NoError
    /\ pending = <<>>
    /\ now = 1
    /\ usedIds = {}
    /\ last = NoLast
    /\ formText = <<>>
    /\ pendingPosition = NoPosition
    /\ isSaving = FALSE
    /\ lastSave = [text |-> <<>>, via |-> "none"]
    /\ IdleExcept({"app", "form"})

\* App.handlePointClick
PointClick(position) ==
    /\ pendingPosition = NoPosition
    /\ pendingPosition' = position
    /\ UNCHANGED <<textVars, appVars, samplerVars, backendVars, netlifyVars,
                   formText, isSaving, lastSave>>

\* onChange of the text area
Type(text) ==
    /\ pendingPosition # NoPosition
    /\ formText # text
    /\ formText' = text
    /\ UNCHANGED <<textVars, appVars, samplerVars, backendVars, netlifyVars,
                   pendingPosition, isSaving, lastSave>>

\* App.handleCancelAnnotation: the Cancel button, the close button, the
\* overlay or Escape
Cancel ==
    /\ pendingPosition # NoPosition
    /\ pendingPosition' = NoPosition
    /\ UNCHANGED <<textVars, appVars, samplerVars, backendVars, netlifyVars,
                   formText, isSaving, lastSave>>

\* handleSubmit: if (text.trim()) { onSave(text.trim()); setText('') };
\* onSave is handleSaveAnnotation, which calls
\* createAnnotation(pendingPosition, text) of the hook, and that one sends
\* the POST of addToAPI
handleSubmit(via) ==
    /\ pendingPosition # NoPosition
    /\ Idle
    /\ trim(formText) # <<>>
    /\ \E id \in freshIds :
        LET text == trim(formText)
            annotation == newAnnotation(id, pendingPosition, text)
            validated ==
                [annotation EXCEPT !.text = validateText(annotation.text)]
        IN
        /\ lastSave' = [text |-> text, via |-> via]
        /\ pending' = Append(pending,
                             pendingOp("create", "write", validated, text,
                                       annotations))
        /\ usedIds' = usedIds \cup {id}
    /\ formText' = <<>>
    /\ isSaving' = TRUE
    /\ now' = now + 1
    /\ last' = NoLast
    /\ UNCHANGED <<textVars, samplerVars, backendVars, netlifyVars, useApi,
                   blob, storageMode, table, hookPhase, annotations,
                   selectedAnnotation, isLoading, error, pendingPosition>>

\* a click on the Save button, which submits the form
ClickSave ==
    /\ ~submitDisabled(formText)
    /\ handleSubmit("button")

\* handleKeyDown with Ctrl+Enter
CtrlEnter == handleSubmit("ctrlEnter")

\* the POST of addToAPI is settled: on failure createAnnotation sets the
\* error and throws, and handleSaveAnnotation catches
SaveWrite(net, dbOk) ==
    /\ pending # <<>>
    /\ pending[1].phase = "write"
    /\ LET op == pending[1]
           res == addToAPI(op.ann, table, net, dbOk)
       IN
       /\ table' = res.table
       /\ IF res.threw
          THEN /\ error' = res.message
               /\ pending' = removeAt(pending, 1)
               /\ last' = lastOf([op EXCEPT !.status = res.status], TRUE,
                                 <<>>)
               /\ pendingPosition' = positionAfterSave(pendingPosition, TRUE)
               /\ isSaving' = FALSE
          ELSE /\ pending' = [pending EXCEPT ![1].phase = "read",
                                             ![1].status = res.status]
               /\ last' = NoLast
               /\ UNCHANGED <<error, pendingPosition, isSaving>>
    /\ UNCHANGED <<textVars, samplerVars, backendVars, netlifyVars, useApi,
                   blob, storageMode, hookPhase, annotations,
                   selectedAnnotation, isLoading, now, usedIds, formText,
                   lastSave>>

\* addAnnotation resolves: setAnnotations(updated), and handleSaveAnnotation
\* goes on after its await
SaveDeliver ==
    /\ pending # <<>>
    /\ pending[1].phase = "resp"
    /\ LET op == pending[1] IN
       /\ annotations' = op.data
       /\ last' = lastOf(op, FALSE, op.data)
    /\ pending' = removeAt(pending, 1)
    /\ pendingPosition' = positionAfterSave(pendingPosition, FALSE)
    /\ isSaving' = FALSE
    /\ UNCHANGED <<textVars, samplerVars, backendVars, netlifyVars, useApi,
                   blob, storageMode, table, hookPhase, selectedAnnotation,
                   isLoading, error, now, usedIds, formText, lastSave>>

FormNext ==
    \/ \E p \in Positions : PointClick(p)
    \/ \E t \in FormTexts : Type(t)
    \/ Cancel
    \/ ClickSave
    \/ CtrlEnter
    \/ \E net \in NetOutcomes, dbOk \in BOOLEAN : SaveWrite(net, dbOk)
    \/ \E net \in NetOutcomes, dbOk \in BOOLEAN : ServerRead(1, net, dbOk)
    \/ SaveDeliver

SpecForm == FormInit /\ [][FormNext]_vars

(***************************************************************************)
(* C25: when a create fails on the Remote backend (the POST is rejected or *)
(* the network fails), the list of the hook is unchanged, its error is     *)
(* set, the failure is thrown to the caller, the App keeps the pending     *)
(* position (the form stays open) and no request is sent again.            *)
(***************************************************************************)
C25_FailedCreateKeepsForm ==
    [][(last' # last /\ last'.op = "create" /\ last'.failed) =>
          /\ annotations' = annotations
          /\ error' # NoError
          /\ last'.threw
          /\ pendingPosition' = pendingPosition
          /\ ~isSaving'
          /\ pending' = <<>>
      ]_vars

\* a create failed while the form was open, and the form is still open
C25_Witness ==
    /\ last.op = "create"
    /\ last.failed
    /\ pendingPosition # NoPosition
    /\ pendingPosition = last.position
    /\ error # NoError

(***************************************************************************)
(* The hook on the API backend with calls that overlap: nothing in the     *)
(* hook or in the components makes a call wait for the one before, so the  *)
(* user can create or delete while earlier requests are in flight, and the *)
(* answers arrive in any order.  The table holds what earlier sessions     *)
(* left there.                                                             *)
(***************************************************************************)
\* the greatest number of calls of the hook in flight at once
MaxPending == 2

\* an annotation an earlier session stored
storedAnnotation(id) ==
    [id |-> id, sceneId |-> DEFAULT_SCENE_ID, position |-> 1,
     text |-> <<CharA>>, createdAt |-> id]

RaceInit ==
    /\ textIn = <<>>
    /\ textOut = <<>>
    /\ textPhase = "unused"
    /\ useApi = TRUE
    /\ blob = NoBlob
    /\ storageMode = "ok"
    /\ \E n \in 0..MaxIds :
        /\ table = {storedAnnotation(id) : id \in 1..n}
        /\ usedIds = 1..n
        /\ now = n + 1
    /\ hookPhase = "init"
    /\ annotations = <<>>
    /\ selectedAnnotation = NoId
    /\ isLoading = TRUE
    /\ error = NoError
    /\ pending = <<>>
    /\ last = NoLast
    /\ IdleExcept({"app"})

\* every request is delivered and answered
RaceNext ==
    \/ MountRemote
    \/ Len(pending) < MaxPending /\ CreateRemote(1, <<CharA>>)
    \/ \E id \in Ids : Len(pending) < MaxPending /\ DeleteRemote(id)
    \/ \E i \in 1..Len(pending) : ServerWrite(i, "ok", TRUE)
    \/ \E i \in 1..Len(pending) : ServerRead(i, "ok", TRUE)
    \/ \E i \in 1..Len(pending) : Deliver(i)

SpecRace == RaceInit /\ [][RaceNext]_vars

\* a POST or a DELETE may fail
RaceFaultyNext ==
    \/ MountRemote
    \/ Len(pending) < MaxPending /\ CreateRemote(1, <<CharA>>)
    \/ \E id \in Ids : Len(pending) < MaxPending /\ DeleteRemote(id)
    \/ \E i \in 1..Len(pending), net \in NetOutcomes, dbOk \in BOOLEAN :
           ServerWrite(i, net, dbOk)
    \/ \E i \in 1..Len(pending) : ServerRead(i, "ok", TRUE)
    \/ \E i \in 1..Len(pending) : Deliver(i)

SpecRaceFaulty == RaceInit /\ [][RaceFaultyNext]_vars

(***************************************************************************)
(* C26: one client on the Remote backend, no request fails: whenever no    *)
(* request is in flight, the ids in the list of the hook are the ids the   *)
(* table holds for the scene, however the answer to the load of the mount  *)
(* interleaves with the answers to creates and deletes issued meanwhile.   *)
(***************************************************************************)
C26_ListMatchesStore ==
    (hookPhase = "mounted" /\ pending = <<>>) =>
        idsOf(annotations) = idsOf(storedInTable(table))

(***************************************************************************)
(* C27: when a delete fails while another call is in flight, its rollback  *)
(* affects only the annotation whose delete failed: the list after the     *)
(* rollback is the list before it with that annotation put back, so an     *)
(* annotation whose own delete succeeded stays out and an annotation whose *)
(* create succeeded stays in.                                              *)
(***************************************************************************)
C27_RollbackIsLocal ==
    [][(last' # last /\ last'.op = "delete" /\ last'.failed) =>
          idsOf(annotations') = idsOf(annotations) \cup {last'.id}
      ]_vars

(***************************************************************************)
(* C28: in every reachable state of the hook with the click handler of the *)
(* App, selectedAnnotation is null or the id of an annotation in the list  *)
(* of the hook, after any sequence of select, create, delete (failed       *)
(* deletes with their rollback included) and reload.                       *)
(***************************************************************************)
C28_SelectionInList ==
    selectedAnnotation = NoId \/ selectedAnnotation \in idsOf(annotations)

(***************************************************************************)
(* The Netlify function (V2) on Netlify Blobs.  The store holds one blob   *)
(* per annotation and the blob "annotation-index", the list of the ids.    *)
(* Every await of the handler is a step of its own, so requests that run   *)
(* at the same time interleave at the calls of the store.  An annotation   *)
(* is its id here: position and text play no part in the index.  The       *)
(* store answers every call.                                               *)
(***************************************************************************)
\* the greatest number of requests the function runs at once
MaxRequests == 2

\* the ids the requests carry
NfIds == {1, 2}

\* a request in flight: method, the id it carries, the await it is at and
\* its local variable ids; for a GET also whether it started with no other
\* request in flight, and the POSTs answered 201 before it (history)
request(method, id, at) ==
    [method |-> method, id |-> id, at |-> at, ids |-> <<>>,
     quiet |-> method = "GET" /\ nfRequests = <<>>,
     posted |-> IF method = "GET" THEN nfPosted ELSE {}]

\* ids.includes(id)
includes(ids, id) == \E k \in 1..Len(ids) : ids[k] = id

\* the store is empty and the function is not running
NetlifyInit == IdleExcept({})

\* a request arrives: the handler runs up to its first await
NfStart(method, id) ==
    /\ Len(nfRequests) < MaxRequests
    /\ method \in {"GET", "POST", "DELETE"}
    /\ method = "GET" <=> id = NoId
    /\ nfRequests' =
           Append(nfRequests,
                  request(method, id,
                          IF method = "GET" THEN "readIndex"
                          ELSE IF method = "POST" THEN "setItem"
                          ELSE "deleteItem"))
    /\ nfDeleteIssued' =
           IF method = "DELETE" THEN nfDeleteIssued \cup {id}
           ELSE nfDeleteIssued
    /\ UNCHANGED <<textVars, appVars, samplerVars, backendVars, formVars,
                   nfIndex, nfItems, nfPosted, nfLast>>

\* OPTIONS, a POST without a body or without id or position, a DELETE
\* without id, or another method: answered before any await
NfAnswerAtOnce(method) ==
    /\ nfLast' = [method |-> method, id |-> NoId,
                  status |-> IF method = "OPTIONS" THEN 204
                             ELSE IF method \in {"POST", "DELETE"} THEN 400
                             ELSE 405,
                  ids |-> <<>>, quiet |-> FALSE, posted |-> {}]
    /\ nfLast' # nfLast
    /\ UNCHANGED <<textVars, appVars, samplerVars, backendVars, formVars,
                   nfIndex, nfItems, nfRequests, nfPosted, nfDeleteIssued>>

\* POST: await store.setJSON(annotation.id, annotation)
NfSetItem(i) ==
    /\ i \in 1..Len(nfRequests)
    /\ nfRequests[i].at = "setItem"
    /\ nfItems' = nfItems \cup {nfRequests[i].id}
    /\ nfRequests' = [nfRequests EXCEPT ![i].at = "readIndex"]
    /\ UNCHANGED <<textVars, appVars, samplerVars, backendVars, formVars,
                   nfIndex, nfPosted, nfDeleteIssued, nfLast>>

\* DELETE: await store.delete(id)
NfDeleteItem(i) ==
    /\ i \in 1..Len(nfRequests)
    /\ nfRequests[i].at = "deleteItem"
    /\ nfItems' = nfItems \ {nfRequests[i].id}
    /\ nfRequests' = [nfRequests EXCEPT ![i].at = "readIndex"]
    /\ UNCHANGED <<textVars, appVars, samplerVars, backendVars, formVars,
                   nfIndex, nfPosted, nfDeleteIssued, nfLast>>

\* ids = (await store.get(INDEX_KEY, { type: "json" })) || []
NfReadIndex(i) ==
    /\ i \in 1..Len(nfRequests)
    /\ nfRequests[i].at = "readIndex"
    /\ nfRequests' =
           [nfRequests EXCEPT
               ![i].ids = nfIndex,
               ![i].at = IF nfRequests[i].method = "GET" THEN "readItems"
                         ELSE "writeIndex"]
    /\ UNCHANGED <<textVars, appVars, samplerVars, backendVars, formVars,
                   nfIndex, nfItems, nfPosted, nfDeleteIssued, nfLast>>

\* POST: if (!ids.includes(id)) { ids.push(id); await store.setJSON(INDEX_KEY,
\* ids) }, then 201; DELETE: await store.setJSON(INDEX_KEY, updatedIds),
\* then 200
NfWriteIndex(i) ==
    /\ i \in 1..Len(nfRequests)
    /\ nfRequests[i].at = "writeIndex"
    /\ LET req == nfRequests[i] IN
       /\ nfIndex' =
              IF req.method = "DELETE"
              THEN SelectSeq(req.ids, LAMBDA k : k # req.id)
              ELSE IF includes(req.ids, req.id) THEN nfIndex
              ELSE Append(req.ids, req.id)
       /\ nfPosted' =
              IF req.method = "POST" THEN nfPosted \cup {req.id}
              ELSE nfPosted
       /\ nfLast' = [method |-> req.method, id |-> req.id,
                     status |-> IF req.method = "POST" THEN 201 ELSE 200,
                     ids |-> <<>>, quiet |-> req.quiet,
                     posted |-> req.posted]
    /\ nfRequests' = removeAt(nfRequests, i)
    /\ UNCHANGED <<textVars, appVars, samplerVars, backendVars, formVars,
                   nfItems, nfDeleteIssued>>

\* GET: the loop over ids with store.get(id), then 200 with the annotations
NfReadItems(i) ==
    /\ i \in 1..Len(nfRequests)
    /\ nfRequests[i].at = "readItems"
    /\ LET req == nfRequests[i] IN
       nfLast' = [method |-> "GET", id |-> NoId, status |-> 200,
                  ids |-> SelectSeq(req.ids, LAMBDA k : k \in nfItems),
                  quiet |-> req.quiet,
                  posted |-> req.posted]
    /\ nfRequests' = removeAt(nfRequests, i)
    /\ UNCHANGED <<textVars, appVars, samplerVars, backendVars, formVars,
                   nfIndex, nfItems, nfPosted, nfDeleteIssued>>

NetlifyNext ==
    \/ \E method \in {"GET", "POST", "DELETE"}, id \in NfIds \cup {NoId} :
           NfStart(method, id)
    \/ \E method \in {"OPTIONS", "POST", "DELETE", "PUT"} :
           NfAnswerAtOnce(method)
    \/ \E i \in 1..Len(nfRequests) : NfSetItem(i)
    \/ \E i \in 1..Len(nfRequests) : NfDeleteItem(i)
    \/ \E i \in 1..Len(nfRequests) : NfReadIndex(i)
    \/ \E i \in 1..Len(nfRequests) : NfWriteIndex(i)
    \/ \E i \in 1..Len(nfRequests) : NfReadItems(i)

SpecNetlify == NetlifyInit /\ [][NetlifyNext]_vars

(***************************************************************************)
(* C29: on the Netlify Blobs handler POSTs that run at the same time and   *)
(* are all answered 201 are all returned by a later GET: the read and      *)
(* write of the id index loses no entry, and a DELETE that runs at the     *)
(* same time as a POST never removes the id that was POSTed.  A GET that   *)
(* starts when no request is in flight returns every id whose POST was     *)
(* answered 201 and for which no DELETE was ever sent.                     *)
(***************************************************************************)
C29_NoLostIndexEntry ==
    (nfLast.method = "GET" /\ nfLast.quiet) =>
        \A id \in nfLast.posted \ nfDeleteIssued :
            includes(nfLast.ids, id)

(***************************************************************************)
(* C30: the annotation form calls onSave only with a text that is not      *)
(* empty, is trimmed and is at most 256 UTF-8 bytes long, whichever way    *)
(* the submit is triggered: the Save button, the submit of the form or     *)
(* Ctrl+Enter.                                                             *)
(***************************************************************************)
C30_OnSaveTextValid ==
    lastSave.via # "none" =>
        /\ lastSave.text # <<>>
        /\ trim(lastSave.text) = lastSave.text
        /\ byteLength(lastSave.text) <= MAX_TEXT_BYTES

====
